---- MODULE Spec2Model ----
(***************************************************************************)
(* Model of apps/api/prisma/extract-excel.py: the extraction of products   *)
(* from the master inventory workbook.                                     *)
(*                                                                         *)
(* Text is a sequence of one-character strings.  Numbers are fixed-point   *)
(* integers counted in units of 10^-(RoundDigits+1), one digit finer than  *)
(* the rounding keeps, so that rounding is observable.                     *)
(***************************************************************************)
EXTENDS Integers, Sequences, FiniteSets, TLC

(***************************************************************************)
(* Characters and Python's str helpers                                     *)
(***************************************************************************)
Digits == <<"0", "1", "2", "3", "4", "5", "6", "7", "8", "9">>

LowerLetters == <<"a", "b", "c", "d", "e", "f", "g", "h", "i", "j", "k", "l", "m",
                  "n", "o", "p", "q", "r", "s", "t", "u", "v", "w", "x", "y", "z">>

UpperLetters == <<"A", "B", "C", "D", "E", "F", "G", "H", "I", "J", "K", "L", "M",
                  "N", "O", "P", "Q", "R", "S", "T", "U", "V", "W", "X", "Y", "Z">>

\* The characters of the model in code-point order (the order sorted() uses).
CodePoints == <<" ", "+", ",", "-", ".">> \o Digits \o UpperLetters \o LowerLetters

Ord(c) == CHOOSE i \in 1..Len(CodePoints) : CodePoints[i] = c

IsSpace(c) == c = " "

IsDigit(c) == \E i \in 1..Len(Digits) : Digits[i] = c

DigitVal(c) == (CHOOSE i \in 1..Len(Digits) : Digits[i] = c) - 1

\* str.upper(), one character
UpperChar(c) ==
    IF \E i \in 1..Len(LowerLetters) : LowerLetters[i] = c
    THEN UpperLetters[CHOOSE i \in 1..Len(LowerLetters) : LowerLetters[i] = c]
    ELSE c

\* str.lower(), one character
LowerChar(c) ==
    IF \E i \in 1..Len(UpperLetters) : UpperLetters[i] = c
    THEN LowerLetters[CHOOSE i \in 1..Len(UpperLetters) : UpperLetters[i] = c]
    ELSE c

Upper(s) == [i \in 1..Len(s) |-> UpperChar(s[i])]

Lower(s) == [i \in 1..Len(s) |-> LowerChar(s[i])]

RECURSIVE LStrip(_)
LStrip(s) == IF s # <<>> /\ IsSpace(Head(s)) THEN LStrip(Tail(s)) ELSE s

RECURSIVE RStrip(_)
RStrip(s) ==
    IF s # <<>> /\ IsSpace(s[Len(s)]) THEN RStrip(SubSeq(s, 1, Len(s) - 1)) ELSE s

\* str.strip()
Strip(s) == RStrip(LStrip(s))

\* a variant that leaves the comma in place
ReplaceComma_Keep(s) == s

\* str.replace(",", ".")
ReplaceComma(s) == [i \in 1..Len(s) |-> IF s[i] = "," THEN "." ELSE s[i]]

StartsWith(s, p) == Len(s) >= Len(p) /\ SubSeq(s, 1, Len(p)) = p

\* s < t in Python's string order
RECURSIVE StrLess(_, _)
StrLess(s, t) ==
    IF t = <<>> THEN FALSE
    ELSE IF s = <<>> THEN TRUE
    ELSE IF Head(s) = Head(t) THEN StrLess(Tail(s), Tail(t))
    ELSE Ord(Head(s)) < Ord(Head(t))

(***************************************************************************)
(* Numbers                                                                 *)
(***************************************************************************)
RoundDigits == 4

Scale == 10 ^ (RoundDigits + 1)

One == Scale

RECURSIVE DigitsVal(_)
DigitsVal(s) ==
    IF s = <<>> THEN 0 ELSE DigitsVal(SubSeq(s, 1, Len(s) - 1)) * 10 + DigitVal(s[Len(s)])

RECURSIVE PadRight(_, _)
PadRight(s, n) == IF Len(s) >= n THEN SubSeq(s, 1, n) ELSE PadRight(Append(s, "0"), n)

DotCount(s) == Cardinality({i \in 1..Len(s) : s[i] = "."})

\* float() of an unsigned decimal literal: digits with at most one dot and at
\* least one digit; anything else is a ValueError.
UnsignedFloat(s) ==
    IF /\ \A i \in 1..Len(s) : IsDigit(s[i]) \/ s[i] = "."
       /\ DotCount(s) <= 1
       /\ \E i \in 1..Len(s) : IsDigit(s[i])
    THEN LET dot == IF DotCount(s) = 1
                    THEN CHOOSE i \in 1..Len(s) : s[i] = "."
                    ELSE Len(s) + 1
             int  == SubSeq(s, 1, dot - 1)
             frac == SubSeq(s, dot + 1, Len(s))
         IN  [ok |-> TRUE,
              v  |-> DigitsVal(int) * Scale + DigitsVal(PadRight(frac, RoundDigits + 1))]
    ELSE [ok |-> FALSE]

\* float() of a str: surrounding whitespace and one leading sign are accepted.
\* (Exponents, "inf", "nan" and digit-group underscores are outside the
\* alphabet of the inputs.)
PyFloat(raw) ==
    LET s == Strip(raw)
    IN  IF s # <<>> /\ Head(s) = "-"
        THEN LET u == UnsignedFloat(Tail(s))
             IN  IF u.ok THEN [ok |-> TRUE, v |-> 0 - u.v] ELSE u
        ELSE IF s # <<>> /\ Head(s) = "+" THEN UnsignedFloat(Tail(s))
        ELSE UnsignedFloat(s)

\* round(x, 4): to the nearest multiple of 10^-RoundDigits, ties to even.
Round4(v) ==
    LET step == Scale \div (10 ^ RoundDigits)
        q    == v \div step
        r    == v % step
    IN  IF 2 * r < step THEN q * step
        ELSE IF 2 * r > step THEN (q + 1) * step
        ELSE IF q % 2 = 0 THEN q * step
        ELSE (q + 1) * step

(***************************************************************************)
(* parse_unit                                                              *)
(***************************************************************************)
Direct ==
    { <<<<"K", "G">>, "KG">>, <<<<"K", "I", "L", "O">>, "KG">>,
      <<<<"L">>, "LT">>, <<<<"L", "I", "T", "R", "O">>, "LT">>,
      <<<<"M", "L">>, "ML">>,
      <<<<"G">>, "GR">>,
      <<<<"U", "N">>, "UN">>, <<<<"U", "N", "D">>, "UN">>,
      <<<<"U", "N", "I", "D", "A", "D">>, "UN">>,
      <<<<"P", "O", "R", "C", "I", "O", "N", "E", "S">>, "PORCIONES">>,
      <<<<"B", "A", "N", "D", "E", "J", "A">>, "BANDEJAS">>,
      <<<<"C", "A", "J", "A">>, "CAJAS">>,
      <<<<"B", "I", "D", "O", "N">>, "BIDONES">>,
      <<<<"F", "R", "A", "S", "C", "O">>, "FRASCOS">>,
      <<<<"P", "A", "Q", "U", "E", "T", "E">>, "PAQUETES">>,
      <<<<"P", "A", "Q", "U", "E", "T">>, "PAQUETES">>,
      <<<<"P", "O", "T", "E">>, "POTES">>,
      <<<<"R", "O", "L", "L", "O">>, "ROLLOS">>,
      <<<<"S", "O", "B", "R", "E">>, "SOBRES">>,
      <<<<"M", "A", "L", "L", "A">>, "MALLAS">>,
      <<<<"R", "E", "B", "A", "N", "A", "D", "A", "S">>, "UN">>,
      <<<<"P", "I", "T">>, "UN">> }

\* The ten regular expressions, in the order they are tried.
\*   kw     the literal keyword the pattern starts with
\*   space  "+" for \s+ after the keyword, "*" for \s*
\*   x      TRUE when the pattern has [xX]?\s* before the number
\*   kg     TRUE when the pattern ends \s*KG, FALSE when it ends with an
\*          optional group ((?:LT|L)?, (?:UN)?, (?:U|UN)?)
PatternRules ==
    << [kw |-> <<"B", "I", "D", "O", "N">>, space |-> "+", x |-> FALSE, kg |-> FALSE,
        unit |-> "BIDONES"],
       [kw |-> <<"B", "O", "L", "S", "A">>, space |-> "+", x |-> FALSE, kg |-> TRUE,
        unit |-> "BOLSAS"],
       [kw |-> <<"B", "O", "T", "E", "L", "L", "A">>, space |-> "+", x |-> FALSE,
        kg |-> FALSE, unit |-> "BOTELLAS"],
       [kw |-> <<"B", "A", "N", "D", "E", "J", "A">>, space |-> "+", x |-> FALSE,
        kg |-> FALSE, unit |-> "BANDEJAS"],
       [kw |-> <<"P", "A", "Q", "U", "E", "T", "E">>, space |-> "*", x |-> TRUE,
        kg |-> FALSE, unit |-> "PAQUETES"],
       [kw |-> <<"F", "R", "A", "S", "C", "O">>, space |-> "*", x |-> FALSE, kg |-> TRUE,
        unit |-> "FRASCOS"],
       [kw |-> <<"P", "O", "T", "E">>, space |-> "+", x |-> FALSE, kg |-> TRUE,
        unit |-> "POTES"],
       [kw |-> <<"T", "A", "R", "R", "O">>, space |-> "+", x |-> FALSE, kg |-> TRUE,
        unit |-> "TARROS"],
       [kw |-> <<"S", "A", "C", "O">>, space |-> "+", x |-> FALSE, kg |-> TRUE,
        unit |-> "SACOS"],
       [kw |-> <<"U", "N", "I", "D", "A", "D">>, space |-> "+", x |-> FALSE, kg |-> TRUE,
        unit |-> "UN"] >>

IsNumChar(c) == IsDigit(c) \/ c = "." \/ c = ","

\* Position after the longest run of whitespace starting at position i.
RECURSIVE SkipSpaces(_, _)
SkipSpaces(s, i) == IF i <= Len(s) /\ IsSpace(s[i]) THEN SkipSpaces(s, i + 1) ELSE i

\* Position after the longest run of [\d.,] starting at position i.
RECURSIVE SkipNum(_, _)
SkipNum(s, i) == IF i <= Len(s) /\ IsNumChar(s[i]) THEN SkipNum(s, i + 1) ELSE i

\* re.match(rule, s): group 1 of the match, or no match.  Whitespace, "X" and
\* [\d.,] are disjoint classes, so the greedy scan is the only way to match.
ReMatch(rule, s) ==
    IF ~StartsWith(s, rule.kw) THEN [matched |-> FALSE]
    ELSE LET a == Len(rule.kw) + 1
             b == SkipSpaces(s, a)
             c == IF rule.x /\ b <= Len(s) /\ s[b] = "X" THEN SkipSpaces(s, b + 1) ELSE b
             d == SkipNum(s, c)
             e == SkipSpaces(s, d)
         IN  IF /\ rule.space = "+" => b > a
                /\ d > c
                /\ rule.kg => (e + 1 <= Len(s) /\ s[e] = "K" /\ s[e + 1] = "G")
             THEN [matched |-> TRUE, group |-> SubSeq(s, c, d - 1)]
             ELSE [matched |-> FALSE]

DefaultUnit == [raised |-> FALSE, unit |-> "UN", factor |-> One]

\* The chain of "m = re.match(...); if m: return ..." from rule k on.
RECURSIVE TryRules(_, _)
TryRules(s, k) ==
    IF k > Len(PatternRules) THEN DefaultUnit
    ELSE LET m == ReMatch(PatternRules[k], s)
         IN  IF m.matched
             THEN LET f == PyFloat(ReplaceComma(m.group))
                  IN  IF f.ok
                      THEN [raised |-> FALSE, unit |-> PatternRules[k].unit, factor |-> f.v]
                      ELSE [raised |-> TRUE]
             ELSE TryRules(s, k + 1)

\* parse_unit(raw) for a str argument: the dict it returns, or raised when
\* float() throws ValueError out of it.
parse_unit(raw) ==
    IF raw = <<>> THEN DefaultUnit
    ELSE LET s == Upper(Strip(raw))
         IN  IF \E d \in Direct : d[1] = s
             THEN [raised |-> FALSE, unit |-> (CHOOSE d \in Direct : d[1] = s)[2],
                   factor |-> One]
             ELSE TryRules(s, 1)

(***************************************************************************)
(* parse_base_unit                                                         *)
(***************************************************************************)
BaseMapping ==
    { <<<<"k", "g">>, "KG">>, <<<<"k", "i", "l", "o">>, "KG">>,
      <<<<"l">>, "LT">>, <<<<"l", "i", "t", "r", "o">>, "LT">>,
      <<<<"m", "l">>, "ML">>,
      <<<<"g">>, "GR">>,
      <<<<"u", "n">>, "UN">>, <<<<"u", "n", "d">>, "UN">>,
      <<<<"u", "n", "i", "d", "a", "d">>, "UN">>,
      <<<<"p", "o", "r", "c", "i", "o", "n", "e", "s">>, "PORCIONES">> }

parse_base_unit(raw) ==
    IF raw = <<>> THEN "UN"
    ELSE LET s == Lower(Strip(raw))
         IN  IF \E d \in BaseMapping : d[1] = s
             THEN (CHOOSE d \in BaseMapping : d[1] = s)[2]
             ELSE "UN"

(***************************************************************************)
(* Cells of a worksheet row, safe_float and safe_str                       *)
(*                                                                         *)
(* A cell is None, a str, an int or a float.  The text columns (code,      *)
(* name, family, units) hold None, str or int cells.                       *)
(***************************************************************************)
None == [kind |-> "none"]

TextCell(s) == [kind |-> "str", s |-> s]

IntCell(n) == [kind |-> "int", n |-> n]

FloatCell(v) == [kind |-> "float", v |-> v]

RECURSIVE NatToStr(_)
NatToStr(n) == IF n < 10 THEN <<Digits[n + 1]>> ELSE Append(NatToStr(n \div 10), Digits[(n % 10) + 1])

\* str() of an int
IntToStr(n) == IF n < 0 THEN <<"-">> \o NatToStr(0 - n) ELSE NatToStr(n)

safe_float(val, default) ==
    CASE val.kind = "none"  -> default
      [] val.kind = "int"   -> val.n * Scale
      [] val.kind = "float" -> val.v
      [] val.kind = "str"   -> LET f == PyFloat(val.s) IN IF f.ok THEN f.v ELSE default

safe_str(val) ==
    CASE val.kind = "none" -> <<>>
      [] val.kind = "int"  -> IntToStr(val.n)
      [] val.kind = "str"  -> Strip(val.s)

(***************************************************************************)
(* SHEETS                                                                  *)
(***************************************************************************)
\* cols[...] = None
NoCol == 0 - 1

ColsA == [code |-> 0, name |-> 1, family |-> 2, factor |-> 3, base_unit |-> 6,
          order_unit |-> 10, merma |-> 11]

ColsB == [code |-> 0, name |-> 1, family |-> 2, factor |-> 5, base_unit |-> 4,
          order_unit |-> 6, merma |-> 7]

ColsC == [code |-> 0, name |-> 1, family |-> 2, factor |-> NoCol, base_unit |-> 5,
          order_unit |-> 5, merma |-> NoCol]

\* (the seventh name is written without its accents)
SHEETS ==
    << [name |-> "Cocina VITACURA", header_row |-> 2, cols |-> ColsA],
       [name |-> "Procesado", header_row |-> 2, cols |-> ColsB],
       [name |-> "Personal", header_row |-> 2, cols |-> ColsC],
       [name |-> "Futas y Verduras", header_row |-> 2, cols |-> ColsA],
       [name |-> "Aseo", header_row |-> 2, cols |-> ColsC],
       [name |-> "Otros Materiales", header_row |-> 2, cols |-> ColsC],
       [name |-> "Cuchilleria y Cristaleria", header_row |-> 2, cols |-> ColsC],
       [name |-> "Articulos de Oficina", header_row |-> 2, cols |-> ColsC] >>

SheetNames == {SHEETS[i].name : i \in 1..Len(SHEETS)}

(***************************************************************************)
(* main: the state                                                         *)
(***************************************************************************)
VARIABLES
    wb,            \* the names of the worksheets of the loaded workbook
    pc,            \* "sheets": at the head of the loop over SHEETS;
                   \* "rows": inside the loop over the rows of a sheet;
                   \* "done": the output is written; "aborted": an exception left main
    sheet_i,       \* position of sheet_cfg in SHEETS (Len(SHEETS) + 1 after the loop)
    row_idx,       \* row_idx of enumerate(ws.iter_rows(...))
    row,           \* the row of the current iteration
    all_products,
    all_families,
    code_counter,
    seen_codes,
    output,        \* the document json.dump wrote, if any
    unit_in,       \* argument of a stand-alone parse_unit call
    unit_out       \* what that call returned or raised

vars == <<wb, pc, sheet_i, row_idx, row, all_products, all_families, code_counter,
          seen_codes, output, unit_in, unit_out>>

mainVars == <<wb, pc, sheet_i, row_idx, row, all_products, all_families, code_counter,
              seen_codes, output>>

NoOutput == [written |-> FALSE]

NotCalled == [called |-> FALSE]

SinClasificar == <<"S", "I", "N", " ", "C", "L", "A", "S", "I", "F", "I", "C", "A", "R">>

sheet_cfg == SHEETS[sheet_i]

\* row[c] if len(row) > c else ""
CellAt(rw, c) == IF Len(rw) > c THEN rw[c + 1] ELSE TextCell(<<>>)

\* a variant without the reset of a zero factor
RowFactor_NoReset(rw, cols) ==
    IF cols.factor # NoCol /\ Len(rw) > cols.factor
    THEN safe_float(rw[cols.factor + 1], One)
    ELSE One

\* lines 272-277
RowFactor(rw, cols) ==
    IF cols.factor # NoCol /\ Len(rw) > cols.factor
    THEN LET f == safe_float(rw[cols.factor + 1], One)
         IN  IF f = 0 THEN One ELSE f
    ELSE One

\* lines 279-289: the text handed to parse_base_unit / parse_unit
UnitRaw(rw, c) == IF Len(rw) > c THEN safe_str(rw[c + 1]) ELSE <<>>

\* f"NC-{n:04d}"
AutoCode(n) ==
    LET d == NatToStr(n)
        RECURSIVE Pad(_)
        Pad(s) == IF Len(s) >= 4 THEN s ELSE Pad(<<"0">> \o s)
    IN  <<"N", "C", "-">> \o Pad(d)

\* the value of code_counter["NC"] the next blank code uses
NextCounter(cc) == IF "NC" \in DOMAIN cc THEN cc["NC"] ELSE 1

\* lines 299-304: the while loop, entered with the given suffix
RECURSIVE UniqueFrom(_, _, _, _)
UniqueFrom(code, original_code, suffix, seen) ==
    IF code \in seen
    THEN UniqueFrom(original_code \o <<"-">> \o IntToStr(suffix), original_code,
                    suffix + 1, seen)
    ELSE code

\* a variant that never looks at the seen codes
UniqueCode_Keep(code, seen) == code

\* a variant whose suffixes start at 0
UniqueCode_FromZero(code, seen) == UniqueFrom(code, code, 0, seen)

UniqueCode(code, seen) == UniqueFrom(code, code, 1, seen)

\* line 320
ConversionFactor(factor, order_parsed) ==
    Round4(IF factor # One THEN factor ELSE order_parsed.factor)

\* a variant that sorts in descending order
RECURSIVE Sorted_Desc(_)
Sorted_Desc(S) ==
    IF S = {} THEN <<>>
    ELSE LET m == CHOOSE x \in S : \A y \in S \ {x} : StrLess(y, x)
         IN  <<m>> \o Sorted_Desc(S \ {m})

\* sorted(all_families)
RECURSIVE Sorted(_)
Sorted(S) ==
    IF S = {} THEN <<>>
    ELSE LET m == CHOOSE x \in S : \A y \in S \ {x} : StrLess(x, y)
         IN  <<m>> \o Sorted(S \ {m})

\* a variant that counts the first product only
CountSheet_First(products, name) ==
    Cardinality({i \in 1..Len(products) : i = 1 /\ products[i].sheet = name})

\* sum(1 for p in all_products if p["sheet"] == name)
CountSheet(products, name) ==
    Cardinality({i \in 1..Len(products) : products[i].sheet = name})

(***************************************************************************)
(* main: the steps                                                         *)
(***************************************************************************)
\* line 251, lines 253-256: the workbook is loaded and the aggregates are empty
MainInit ==
    /\ pc = "sheets"
    /\ sheet_i = 1
    /\ row_idx = 0
    /\ row = <<>>
    /\ all_products = <<>>
    /\ all_families = {}
    /\ code_counter = [p \in {} |-> 0]
    /\ seen_codes = {}
    /\ output = NoOutput

\* lines 258-262: the next sheet_cfg, its worksheet is in the workbook
OpenSheet ==
    /\ pc = "sheets"
    /\ sheet_i <= Len(SHEETS)
    /\ sheet_cfg.name \in wb
    /\ pc' = "rows"
    /\ row_idx' = sheet_cfg.header_row
    /\ UNCHANGED <<wb, sheet_i, row, all_products, all_families, code_counter,
                   seen_codes, output, unit_in, unit_out>>

\* a variant that passes over an absent sheet
SheetMissing_Skips ==
    /\ pc = "sheets"
    /\ sheet_i <= Len(SHEETS)
    /\ sheet_cfg.name \notin wb
    /\ sheet_i' = sheet_i + 1
    /\ UNCHANGED <<wb, pc, row_idx, row, all_products, all_families, code_counter,
                   seen_codes, output, unit_in, unit_out>>

\* line 260: wb[sheet_name] raises KeyError, which nothing catches
SheetMissing ==
    /\ pc = "sheets"
    /\ sheet_i <= Len(SHEETS)
    /\ sheet_cfg.name \notin wb
    /\ pc' = "aborted"
    /\ UNCHANGED <<wb, sheet_i, row_idx, row, all_products, all_families, code_counter,
                   seen_codes, output, unit_in, unit_out>>

\* a variant that spends an auto-code number on a nameless row
SkipRow_Counting(rw) ==
    /\ pc = "rows"
    /\ safe_str(CellAt(rw, sheet_cfg.cols.name)) = <<>>
    /\ row' = rw
    /\ row_idx' = row_idx + 1
    /\ code_counter' = [p \in {"NC"} |-> NextCounter(code_counter) + 1]
    /\ UNCHANGED <<wb, pc, sheet_i, all_products, all_families, seen_codes, output,
                   unit_in, unit_out>>

\* lines 264-267: a row without a name
SkipRow(rw) ==
    /\ pc = "rows"
    /\ safe_str(CellAt(rw, sheet_cfg.cols.name)) = <<>>
    /\ row' = rw
    /\ row_idx' = row_idx + 1
    /\ UNCHANGED <<wb, pc, sheet_i, all_products, all_families, code_counter,
                   seen_codes, output, unit_in, unit_out>>

\* lines 264-289: a named row whose order unit makes parse_unit raise ValueError
RowRaises(rw) ==
    /\ pc = "rows"
    /\ safe_str(CellAt(rw, sheet_cfg.cols.name)) # <<>>
    /\ parse_unit(UnitRaw(rw, sheet_cfg.cols.order_unit)).raised
    /\ row' = rw
    /\ row_idx' = row_idx + 1
    /\ pc' = "aborted"
    /\ UNCHANGED <<wb, sheet_i, all_products, all_families, code_counter,
                   seen_codes, output, unit_in, unit_out>>

\* lines 264-323: a named row becomes a product
EmitRow(rw) ==
    /\ pc = "rows"
    /\ LET cols         == sheet_cfg.cols
           name         == safe_str(CellAt(rw, cols.name))
           code0        == safe_str(CellAt(rw, cols.code))
           family0      == safe_str(CellAt(rw, cols.family))
           factor       == RowFactor(rw, cols)
           base_unit    == parse_base_unit(UnitRaw(rw, cols.base_unit))
           order_parsed == parse_unit(UnitRaw(rw, cols.order_unit))
           code1        == IF code0 = <<>> THEN AutoCode(NextCounter(code_counter)) ELSE code0
           code         == UniqueCode(code1, seen_codes)
           family       == IF family0 = <<>> THEN SinClasificar ELSE family0
       IN  /\ name # <<>>
           /\ ~order_parsed.raised
           /\ code_counter' = IF code0 = <<>>
                              THEN [p \in {"NC"} |-> NextCounter(code_counter) + 1]
                              ELSE code_counter
           /\ seen_codes' = seen_codes \cup {code}
           /\ all_families' = all_families \cup {family}
           /\ all_products' = Append(all_products,
                  [code |-> code, name |-> name, family |-> family,
                   sheet |-> sheet_cfg.name, unitOfMeasure |-> base_unit,
                   unitOfOrder |-> order_parsed.unit,
                   conversionFactor |-> ConversionFactor(factor, order_parsed)])
    /\ row' = rw
    /\ row_idx' = row_idx + 1
    /\ UNCHANGED <<wb, pc, sheet_i, output, unit_in, unit_out>>

\* line 264: iter_rows is exhausted, on to the next sheet
EndSheet ==
    /\ pc = "rows"
    /\ sheet_i' = sheet_i + 1
    /\ pc' = "sheets"
    /\ UNCHANGED <<wb, row_idx, row, all_products, all_families, code_counter,
                   seen_codes, output, unit_in, unit_out>>

\* lines 325-346: after the last sheet the document is built and written
Report ==
    /\ pc = "sheets"
    /\ sheet_i > Len(SHEETS)
    /\ LET families_sorted == Sorted(all_families)
       IN  output' = [written  |-> TRUE,
                      families |-> families_sorted,
                      products |-> all_products,
                      stats    |-> [totalProducts |-> Len(all_products),
                                    totalFamilies |-> Len(families_sorted),
                                    bySheet |-> [n \in SheetNames |->
                                                    CountSheet(all_products, n)]]]
    /\ pc' = "done"
    /\ UNCHANGED <<wb, sheet_i, row_idx, row, all_products, all_families, code_counter,
                   seen_codes, unit_in, unit_out>>

(***************************************************************************)
(* Inputs: workbooks and rows                                              *)
(***************************************************************************)
MaxProducts == 3

MaxRowsPerSheet == 2

MaxFactorProducts == 1

\* The workbook has every declared sheet, or lacks exactly one of them.
Workbooks == {SheetNames} \cup {SheetNames \ {SHEETS[i].name} : i \in {1, 3, Len(SHEETS)}}

\* The sheets that have rows below the header: one of each layout, and the last.
DataSheets == {1, 2, 3, Len(SHEETS)}

\* The widest layout uses column 11.
FullWidth == 12

\* A row of the given length with the given cells in the columns of the layout.
MkRow(cols, f, len) ==
    [i \in 1..len |->
        IF i - 1 = cols.code THEN f.code
        ELSE IF i - 1 = cols.name THEN f.name
        ELSE IF i - 1 = cols.family THEN f.family
        ELSE IF i - 1 = cols.factor THEN f.factor
        ELSE IF i - 1 = cols.order_unit THEN f.order
        ELSE IF i - 1 = cols.base_unit THEN f.base
        ELSE None]

T_A == TextCell(<<"A">>)
T_B == TextCell(<<"B">>)
T_X == TextCell(<<"X">>)
T_X1 == TextCell(<<"X", "-", "1">>)
T_NC1 == TextCell(<<"N", "C", "-", "0", "0", "0", "1">>)
T_Blank == TextCell(<<" ", " ">>)
T_ASpaced == TextCell(<<" ", "A", " ">>)
T_Kilo == TextCell(<<"K", "i", "l", "o">>)
T_KG == TextCell(<<"K", "G">>)
T_Bidon5 == TextCell(<<"B", "I", "D", "O", "N", " ", "5", " ", "L", "T">>)
T_Bidon0 == TextCell(<<"B", "I", "D", "O", "N", " ", "0", " ", "L", "T">>)
T_BidonBad == TextCell(<<"B", "I", "D", "O", "N", " ", "1", ".", "2", ".", "3">>)
T_Pote == TextCell(<<"P", "O", "T", "E", " ", "0", ",", "7", "8", "9", " ", "K", "G">>)
T_Abc == TextCell(<<"a", "b", "c">>)

\* Rows of a run that exercises names, codes and families.
MainRows(cols) ==
    {MkRow(cols, [name |-> T_A, code |-> None, family |-> None, factor |-> None,
                  base |-> T_Kilo, order |-> T_KG], FullWidth),
     MkRow(cols, [name |-> T_A, code |-> T_X, family |-> T_B, factor |-> None,
                  base |-> None, order |-> T_Bidon5], FullWidth),
     MkRow(cols, [name |-> T_A, code |-> T_X1, family |-> T_ASpaced, factor |-> None,
                  base |-> None, order |-> None], FullWidth),
     MkRow(cols, [name |-> T_A, code |-> T_NC1, family |-> None, factor |-> None,
                  base |-> None, order |-> None], FullWidth)}
    \cup
    {MkRow(cols, [name |-> n, code |-> T_X, family |-> T_B, factor |-> FloatCell(2 * One),
                  base |-> T_Kilo, order |-> T_BidonBad], FullWidth) :
        n \in {None, T_Blank}}
    \cup
    {<<T_X>>}
    \cup
    {MkRow(cols, [name |-> T_A, code |-> T_X, family |-> T_B, factor |-> None,
                  base |-> None, order |-> T_BidonBad], FullWidth)}

FactorCells ==
    {None, T_Abc, IntCell(0), FloatCell(One), FloatCell(0 - 2 * One), FloatCell(1),
     FloatCell(78946), FloatCell(3125), FloatCell((5 * One) \div 2)}

OrderCells == {None, T_Bidon5, T_Bidon0, T_Pote, T_BidonBad}

\* Rows of a run that exercises the factor column and the order unit.
FactorRows(cols) ==
    {MkRow(cols, [name |-> T_A, code |-> None, family |-> None, factor |-> fc,
                  base |-> None, order |-> oc], FullWidth) :
        fc \in FactorCells, oc \in OrderCells}
    \cup
    {MkRow(cols, [name |-> T_A, code |-> None, family |-> None, factor |-> FloatCell(3 * One),
                  base |-> None, order |-> T_Bidon5], 3)}
    \cup
    {MkRow(cols, [name |-> None, code |-> None, family |-> None, factor |-> FloatCell(3 * One),
                  base |-> None, order |-> T_Bidon5], FullWidth)}

(***************************************************************************)
(* Specifications                                                          *)
(***************************************************************************)
Init ==
    /\ wb \in Workbooks
    /\ MainInit
    /\ unit_in = <<>>
    /\ unit_out = NotCalled

\* the model reads at most maxRows rows of a sheet
MoreRows(maxRows) ==
    /\ pc = "rows"
    /\ sheet_i \in DataSheets
    /\ row_idx < sheet_cfg.header_row + maxRows

Next ==
    \/ OpenSheet
    \/ SheetMissing
    \/ MoreRows(MaxRowsPerSheet) /\ \E rw \in MainRows(sheet_cfg.cols) : SkipRow(rw)
    \/ MoreRows(MaxRowsPerSheet) /\ \E rw \in MainRows(sheet_cfg.cols) : RowRaises(rw)
    \/ /\ MoreRows(MaxRowsPerSheet)
       /\ Len(all_products) < MaxProducts
       /\ \E rw \in MainRows(sheet_cfg.cols) : EmitRow(rw)
    \/ EndSheet
    \/ Report

Spec == Init /\ [][Next]_vars

NextFactor ==
    \/ OpenSheet
    \/ SheetMissing
    \/ MoreRows(MaxRowsPerSheet) /\ \E rw \in FactorRows(sheet_cfg.cols) : SkipRow(rw)
    \/ MoreRows(MaxRowsPerSheet) /\ \E rw \in FactorRows(sheet_cfg.cols) : RowRaises(rw)
    \/ /\ MoreRows(MaxRowsPerSheet)
       /\ Len(all_products) < MaxFactorProducts
       /\ \E rw \in FactorRows(sheet_cfg.cols) : EmitRow(rw)
    \/ EndSheet
    \/ Report

SpecFactor == Init /\ [][NextFactor]_vars

(***************************************************************************)
(* parse_unit on its own: an order-unit text assembled from a keyword,     *)
(* whitespace, an "x", a number and a tail, and some free-form texts.      *)
(***************************************************************************)
UnitSpaces == {<<>>, <<" ">>}

UnitInfixes == {<<>>, <<"x">>}

\* text: the characters; ok: whether they spell a decimal number (comma or dot
\* as the fractional separator); v: that number.
UnitNumbers ==
    { [text |-> <<"5">>, ok |-> TRUE, v |-> 5 * One],
      [text |-> <<"2", "5">>, ok |-> TRUE, v |-> 25 * One],
      [text |-> <<"0", ",", "2", "5">>, ok |-> TRUE, v |-> One \div 4],
      [text |-> <<"1", ".", "5">>, ok |-> TRUE, v |-> (3 * One) \div 2],
      [text |-> <<"0">>, ok |-> TRUE, v |-> 0],
      [text |-> <<"1", ".", "2", ".", "3">>, ok |-> FALSE, v |-> 0],
      [text |-> <<".">>, ok |-> FALSE, v |-> 0],
      [text |-> <<",">>, ok |-> FALSE, v |-> 0],
      [text |-> <<"5", ",", ",">>, ok |-> FALSE, v |-> 0] }

UnitTails ==
    {<<>>, <<" ", "K", "G">>, <<"K", "G">>, <<" ", "L", "T">>, <<"L">>, <<" ", "U", "N">>,
     <<" ", "u">>}

FreeTexts ==
    { <<>>,
      <<"G", "A", "R", "B", "A", "G", "E">>,
      <<" ", "k", "g", " ">>,
      <<"P", "a", "q", "u", "e", "t">>,
      <<"b", "i", "d", "o", "n", " ", "1", "0">>,
      <<"U", "N", "I", "D", "A", "D">> }

UnitInputs ==
    { [rule |-> k, space |-> sp, x |-> x, num |-> n, tail |-> t,
       raw |-> PatternRules[k].kw \o sp \o x \o n.text \o t] :
        k \in 1..Len(PatternRules), sp \in UnitSpaces, x \in UnitInfixes,
        n \in UnitNumbers, t \in UnitTails }
    \cup
    { [rule |-> 0, space |-> <<>>, x |-> <<>>, num |-> [text |-> <<>>, ok |-> FALSE, v |-> 0],
       tail |-> <<>>, raw |-> f] : f \in FreeTexts }

InitUnit ==
    /\ wb = SheetNames
    /\ MainInit
    /\ unit_in \in UnitInputs
    /\ unit_out = NotCalled

\* order_parsed = parse_unit(order_unit_raw), line 289, with the text as main
\* hands it over: already through safe_str
CallParseUnit ==
    /\ unit_out = NotCalled
    /\ unit_out' = [called |-> TRUE, res |-> parse_unit(safe_str(TextCell(unit_in.raw)))]
    /\ UNCHANGED <<mainVars, unit_in>>

NextUnit == CallParseUnit

SpecUnit == InitUnit /\ [][NextUnit]_vars

(***************************************************************************)
(* Properties                                                              *)
(***************************************************************************)
Last(q) == q[Len(q)]

\* this step appended a product made from row'
EmitStep == Len(all_products') = Len(all_products) + 1

\* this step was an iteration of the loop over the rows
RowStep == pc = "rows" /\ row_idx' = row_idx + 1

\* the cell of column c is absent from the row, None, or only whitespace
BlankCell(rw, c) ==
    \/ Len(rw) <= c
    \/ rw[c + 1].kind = "none"
    \/ rw[c + 1].kind = "str" /\ \A i \in 1..Len(rw[c + 1].s) : rw[c + 1].s[i] = " "

\* the current row was read from the current sheet
RowOfSheet == pc = "rows" /\ row_idx > sheet_cfg.header_row

\* C1: the codes of all products in the product list are pairwise distinct.
C1_CodesDistinct ==
    \A i, j \in 1..Len(all_products) :
        i # j => all_products[i].code # all_products[j].code

\* a raw "X-1" and two raw "X" met: the second "X" had to become "X-2"
C1_Witness ==
    /\ Len(all_products) = 3
    /\ \E i \in 1..3 : all_products[i].code = <<"X", "-", "2">>
    /\ \E i \in 1..3 : all_products[i].code = <<"X", "-", "1">>

\* C2: processing a row whose name is empty (absent, blank after trimming, or
\* beyond the end of the row) changes neither the product list, the auto-code
\* counter, the seen codes nor the families, and the run goes on.
C2_EmptyNameSkips ==
    [][(RowStep /\ BlankCell(row', sheet_cfg.cols.name))
         => UNCHANGED <<all_products, code_counter, seen_codes, all_families, output,
                        pc, sheet_i>>]_vars

\* a nameless row whose other cells are filled was read after some products
C2_Witness ==
    /\ RowOfSheet
    /\ Len(row) = FullWidth
    /\ row[sheet_cfg.cols.name + 1] = T_Blank
    /\ ~BlankCell(row, sheet_cfg.cols.code)
    /\ ~BlankCell(row, sheet_cfg.cols.order_unit)
    /\ Len(all_products) = 2

\* the factor column's value as the claim reads it: coerced, an exact 0 reset to 1
CoercedFactor(rw, cols) ==
    LET c == safe_float(rw[cols.factor + 1], One) IN IF c = 0 THEN One ELSE c

\* the factor the claim selects for a row, before any rounding
SelectedFactor(rw, cols) ==
    IF cols.factor # NoCol /\ Len(rw) > cols.factor /\ CoercedFactor(rw, cols) # One
    THEN CoercedFactor(rw, cols)
    ELSE parse_unit(UnitRaw(rw, cols.order_unit)).factor

\* C3 as stated: conversionFactor equals the coerced factor-column value when a
\* factor column is declared and that value differs from 1.0, and the order
\* unit's factor in every other case.
C3_Original ==
    [][EmitStep =>
         Last(all_products').conversionFactor = SelectedFactor(row', sheet_cfg.cols)]_vars

\* C3 amended: conversionFactor equals that value rounded to 4 fractional digits.
C3_FactorRounded ==
    [][EmitStep =>
         Last(all_products').conversionFactor
            = Round4(SelectedFactor(row', sheet_cfg.cols))]_vars

\* a factor cell of 0.78946 gave a conversionFactor of 0.7895
C3_Witness ==
    /\ RowOfSheet
    /\ sheet_cfg.cols.factor # NoCol
    /\ Len(row) > sheet_cfg.cols.factor
    /\ ~BlankCell(row, sheet_cfg.cols.name)
    /\ row[sheet_cfg.cols.factor + 1] = FloatCell(78946)
    /\ Len(all_products) = 1
    /\ all_products[1].conversionFactor = 78950

\* C4: for an order unit that starts with a pattern keyword but whose number
\* is not a parsable decimal, parse_unit raises nothing and returns (UN, 1).
C4_UnparsableIsDefault ==
    (unit_out # NotCalled /\ unit_in.rule >= 1 /\ ~unit_in.num.ok)
        => unit_out.res = DefaultUnit

\* "NC-" and the counter, zero-padded to four digits
PaddedCode(n) ==
    <<"N", "C", "-">> \o
    (CASE n < 10 -> <<"0", "0", "0">>
       [] n >= 10 /\ n < 100 -> <<"0", "0">>
       [] n >= 100 /\ n < 1000 -> <<"0">>
       [] OTHER -> <<>>) \o NatToStr(n)

Suffixed(base, k) == base \o <<"-">> \o NatToStr(k)

\* C5: a blank code gets "NC-" and the 4-digit counter, which starts at 1 and
\* advances by one per blank-code row only; the final code is the base code if
\* unseen, else base-k for the least k >= 1 that is unseen; it is then seen.
C5_CodeAssignment ==
    [][EmitStep =>
         LET cols  == sheet_cfg.cols
             blank == BlankCell(row', cols.code)
             n     == IF "NC" \in DOMAIN code_counter THEN code_counter["NC"] ELSE 1
             base  == IF blank THEN PaddedCode(n) ELSE safe_str(row'[cols.code + 1])
             final == Last(all_products').code
         IN  /\ code_counter = [p \in {} |-> 0] => n = 1
             /\ blank => code_counter' = [p \in {"NC"} |-> n + 1]
             /\ ~blank => code_counter' = code_counter
             /\ IF base \notin seen_codes
                THEN final = base
                ELSE \E k \in 1..(Cardinality(seen_codes) + 1) :
                        /\ final = Suffixed(base, k)
                        /\ final \notin seen_codes
                        /\ \A j \in 1..(k - 1) : Suffixed(base, j) \in seen_codes
             /\ seen_codes' = seen_codes \cup {final}]_vars

\* a raw "NC-0001" came first, so the first blank code became "NC-0001-1",
\* and the counter moved once
C5_Witness ==
    /\ Len(all_products) >= 2
    /\ all_products[1].code = <<"N", "C", "-", "0", "0", "0", "1">>
    /\ all_products[2].code = <<"N", "C", "-", "0", "0", "0", "1", "-", "1">>
    /\ code_counter = [p \in {"NC"} |-> 2]

\* the families list of the document against its products
FamiliesOfProducts ==
    output.written =>
        LET F == output.families
            P == output.products
        IN  /\ {F[i] : i \in 1..Len(F)} = {P[j].family : j \in 1..Len(P)}
            /\ \A i, j \in 1..Len(F) : i < j => StrLess(F[i], F[j])
            /\ \A j \in 1..Len(P) : P[j].family # <<>>

\* C6: the families list holds exactly the distinct families of the products,
\* "SIN CLASIFICAR" standing for every blank family, without duplicates and in
\* ascending order whatever the order of the rows.
C6_FamiliesSorted ==
    /\ []FamiliesOfProducts
    /\ [][(EmitStep /\ BlankCell(row', sheet_cfg.cols.family))
            => Last(all_products').family = SinClasificar]_vars

\* the families were met in the order B, SIN CLASIFICAR, A
C6_Witness ==
    /\ output.written
    /\ Len(output.products) = 3
    /\ output.products[1].family = <<"B">>
    /\ output.products[2].family = SinClasificar
    /\ output.products[3].family = <<"A">>
    /\ output.families = <<<<"A">>, <<"B">>, SinClasificar>>

RECURSIVE SumOver(_, _)
SumOver(f, S) ==
    IF S = {} THEN 0
    ELSE LET x == CHOOSE y \in S : TRUE IN f[x] + SumOver(f, S \ {x})

\* C7: stats.bySheet has one entry per declared sheet and its values sum to
\* stats.totalProducts, the length of the products list; stats.totalFamilies
\* is the length of the families list.
C7_StatsAgree ==
    output.written =>
        /\ DOMAIN output.stats.bySheet = SheetNames
        /\ SumOver(output.stats.bySheet, SheetNames) = output.stats.totalProducts
        /\ output.stats.totalProducts = Len(output.products)
        /\ output.stats.totalFamilies = Len(output.families)

\* three products from two sheets
C7_Witness ==
    /\ output.written
    /\ output.stats.totalProducts = 3
    /\ output.stats.bySheet[SHEETS[1].name] = 2
    /\ output.stats.bySheet[SHEETS[Len(SHEETS)].name] = 1

\* C8: when a declared sheet is absent from the workbook the run aborts on
\* reaching it and writes no document, whatever was extracted before; a
\* document is written only after every declared sheet has been processed.
C8_MissingSheetAborts ==
    /\ []((pc = "aborted" => ~output.written)
          /\ (output.written => sheet_i > Len(SHEETS) /\ SheetNames \subseteq wb))
    /\ [][(pc = "sheets" /\ sheet_i <= Len(SHEETS) /\ sheet_cfg.name \notin wb)
            => (pc' = "aborted" /\ ~output'.written)]_vars

\* the run aborted at an absent sheet after extracting three products
C8_Witness ==
    /\ pc = "aborted"
    /\ sheet_i <= Len(SHEETS)
    /\ sheet_cfg.name \notin wb
    /\ Len(all_products) = 3
    /\ ~output.written

\* the suffix tokens the patterns name
KgTails == {<<" ", "K", "G">>, <<"K", "G">>}

RuleResult(u) ==
    [raised |-> FALSE, unit |-> PatternRules[u.rule].unit, factor |-> u.num.v]

\* C9 as stated: keyword, optional whitespace, a decimal number, with or
\* without a suffix token, gives the rule's unit and the number, for each of
\* the ten rules.
C9_Original ==
    (unit_out # NotCalled /\ unit_in.rule >= 1 /\ unit_in.num.ok /\ unit_in.x = <<>>)
        => unit_out.res = RuleResult(unit_in)

\* the rules whose pattern has \s* after the keyword
SpaceOptional == {"PAQUETES", "FRASCOS"}

\* the rules whose pattern ends with an optional suffix group
SuffixOptional == {"BIDONES", "BOTELLAS", "BANDEJAS", "PAQUETES"}

\* C9 amended: the input gives the rule's unit and the number when whitespace
\* follows the keyword (it may be missing for PAQUETE and FRASCO only) and
\* "KG" follows the number (it may be missing for BIDON, BOTELLA, BANDEJA and
\* PAQUETE only); an "x" before the number is accepted for PAQUETE; any other
\* such input gives the default (UN, 1).
C9_RuleShapes ==
    (/\ unit_out # NotCalled
     /\ unit_in.rule >= 1
     /\ unit_in.num.ok
     /\ (unit_in.x = <<>> \/ PatternRules[unit_in.rule].unit = "PAQUETES"))
        => LET u == PatternRules[unit_in.rule].unit
           IN  IF /\ unit_in.space # <<>> \/ u \in SpaceOptional
                  /\ unit_in.tail \in KgTails \/ u \in SuffixOptional
               THEN unit_out.res = RuleResult(unit_in)
               ELSE unit_out.res = DefaultUnit

\* "FRASCO0,25KG" gave (FRASCOS, 0.25)
C9_Witness ==
    /\ unit_out # NotCalled
    /\ unit_in.raw = <<"F", "R", "A", "S", "C", "O", "0", ",", "2", "5", "K", "G">>
    /\ unit_out.res = [raised |-> FALSE, unit |-> "FRASCOS", factor |-> One \div 4]

\* C10: every product has a conversionFactor greater than 0.
C10_FactorPositive ==
    \A i \in 1..Len(all_products) : all_products[i].conversionFactor > 0

====
